---- MODULE Spec2Model ----
(***************************************************************************)
(* nanoSignal: signals, effects, computed signals and the flatten /        *)
(* unflatten codec, modelled from src/src/nano-signal/nanoSignal.ts and    *)
(* src/src/nano-signal/objectUtils.ts.                                     *)
(*                                                                         *)
(* JavaScript values are tagged records.  An object keeps its properties   *)
(* as a sequence of [key, val] in enumeration order, because flatten and   *)
(* unflatten visit them in that order.  Every top-level API call is one    *)
(* action: the whole synchronous cascade it starts is computed by the      *)
(* recursive operators below and is part of that action.                   *)
(***************************************************************************)
EXTENDS Integers, Sequences, FiniteSets, TLC

(***************************************************************************)
(* JavaScript values                                                       *)
(***************************************************************************)
Undefined == [k |-> "undefined"]
Null == [k |-> "null"]
NaN == [k |-> "NaN"]
Hole == [k |-> "hole"]
Num(n) == [k |-> "number", n |-> n]
Str(s) == [k |-> "string", s |-> s]
Bool(b) == [k |-> "boolean", b |-> b]
Func(src) == [k |-> "function", src |-> src]
Prop(key, val) == [key |-> key, val |-> val]
Obj(props) == [k |-> "object", props |-> props]
Arr(elems) == [k |-> "array", elems |-> elems, props |-> <<>>]

\* typeof v
TypeOf(v) ==
  CASE v.k \in {"null", "object", "array"} -> "object"
    [] v.k \in {"number", "NaN"} -> "number"
    [] v.k = "hole" -> "undefined"
    [] OTHER -> v.k

\* typeof v === "object" && v !== null
IsObject(v) == v.k \in {"object", "array"}

\* ToBoolean(v), as in `if (!current[part])`
Truthy(v) ==
  CASE v.k \in {"undefined", "null", "NaN", "hole"} -> FALSE
    [] v.k = "number" -> v.n # 0
    [] v.k = "string" -> v.s # ""
    [] v.k = "boolean" -> v.b
    [] OTHER -> TRUE

\* an array hole reads as undefined
ReadElem(v) == IF v.k = "hole" THEN Undefined ELSE v

Digits == <<"0", "1", "2", "3", "4", "5", "6", "7", "8", "9">>
IsDigit(c) == \E i \in 1..10 : Digits[i] = c
DigitVal(c) == (CHOOSE i \in 1..10 : Digits[i] = c) - 1

RECURSIVE AllDigits(_)
AllDigits(s) == s = "" \/ (IsDigit(SubSeq(s, 1, 1)) /\ AllDigits(SubSeq(s, 2, Len(s))))

\* parseInt of a string of digits
RECURSIVE ParseInt(_)
ParseInt(s) ==
  IF s = "" THEN 0
  ELSE 10 * ParseInt(SubSeq(s, 1, Len(s) - 1)) + DigitVal(SubSeq(s, Len(s), Len(s)))

\* a property key that is a canonical array index ("0", "1", "10"; not "01")
IsIndexKey(key) ==
  /\ key # ""
  /\ AllDigits(key)
  /\ (Len(key) = 1 \/ SubSeq(key, 1, 1) # "0")

(***************************************************************************)
(* Objects: own enumerable properties in enumeration order                 *)
(***************************************************************************)
RECURSIVE KeyPos(_, _)
\* the position of key in props, 0 when absent
KeyPos(props, key) ==
  IF props = <<>> THEN 0
  ELSE IF props[Len(props)].key = key THEN Len(props)
  ELSE KeyPos(SubSeq(props, 1, Len(props) - 1), key)

HasKey(props, key) == KeyPos(props, key) # 0

\* where a new key is inserted: integer keys come first, in ascending order,
\* then the other keys in insertion order
InsertPos(props, key) ==
  IF IsIndexKey(key)
    THEN Cardinality({i \in 1..Len(props) :
           IsIndexKey(props[i].key) /\ ParseInt(props[i].key) < ParseInt(key)}) + 1
    ELSE Len(props) + 1

\* props[key] = val
PropsSet(props, key, val) ==
  LET p == KeyPos(props, key) IN
  IF p # 0 THEN [props EXCEPT ![p].val = val]
  ELSE LET q == InsertPos(props, key) IN
       SubSeq(props, 1, q - 1) \o <<Prop(key, val)>> \o SubSeq(props, q, Len(props))

PropsGet(props, key) ==
  LET p == KeyPos(props, key) IN IF p = 0 THEN Undefined ELSE props[p].val

RECURSIVE PropsAssign(_, _)
\* Object.assign(target, source) and the spread {...target, ...source}
PropsAssign(target, source) ==
  IF source = <<>> THEN target
  ELSE PropsAssign(PropsSet(target, source[1].key, source[1].val), Tail(source))

RECURSIVE ArrayEntries(_, _)
\* the index properties of an array, holes skipped
ArrayEntries(elems, i) ==
  IF i > Len(elems) THEN <<>>
  ELSE (IF elems[i].k = "hole" THEN <<>> ELSE <<Prop(ToString(i - 1), elems[i])>>)
       \o ArrayEntries(elems, i + 1)

RECURSIVE StringEntries(_, _)
StringEntries(s, i) ==
  IF i > Len(s) THEN <<>>
  ELSE <<Prop(ToString(i - 1), Str(SubSeq(s, i, i)))>> \o StringEntries(s, i + 1)

\* what `for (key in v)` with the hasOwnProperty filter visits, in order
OwnEntries(v) ==
  CASE v.k = "object" -> v.props
    [] v.k = "array" -> ArrayEntries(v.elems, 1) \o v.props
    [] v.k = "string" -> StringEntries(v.s, 1)
    [] OTHER -> <<>>

\* v[key] for a property read
GetProp(v, key) ==
  CASE v.k = "object" -> PropsGet(v.props, key)
    [] v.k = "array" ->
         IF IsIndexKey(key)
           THEN (IF ParseInt(key) < Len(v.elems)
                   THEN ReadElem(v.elems[ParseInt(key) + 1]) ELSE Undefined)
           ELSE PropsGet(v.props, key)
    [] OTHER -> Undefined

\* an array with elems[index] = val (0-based), padded with holes
ElemsSet(elems, index, val) ==
  [i \in 1..(IF index + 1 > Len(elems) THEN index + 1 ELSE Len(elems)) |->
     IF i = index + 1 THEN val ELSE IF i <= Len(elems) THEN elems[i] ELSE Hole]

\* v[key] = val on an object or an array
SetProp(v, key, val) ==
  CASE v.k = "object" -> [v EXCEPT !.props = PropsSet(@, key, val)]
    [] v.k = "array" ->
         IF IsIndexKey(key)
           THEN [v EXCEPT !.elems = ElemsSet(@, ParseInt(key), val)]
           ELSE [v EXCEPT !.props = PropsSet(@, key, val)]
    [] OTHER -> v

(***************************************************************************)
(* objectUtils.ts: flattenObject                                           *)
(***************************************************************************)
\* the function marker { __function__: value.toString() }
FunctionMarker(src) == Obj(<<Prop("__function__", Str(src))>>)

RECURSIVE flattenObject(_, _, _)
RECURSIVE FlattenEntries(_, _, _, _)
RECURSIVE FlattenArray(_, _, _, _, _)

\* the loop `for (let i = 0; i < value.length; i++)` over an array value
FlattenArray(value, i, currentKey, separator, flattened) ==
  IF i >= Len(value.elems) THEN flattened
  ELSE LET arrayKey == currentKey \o "[" \o ToString(i) \o "]"
           el == ReadElem(value.elems[i + 1])
           next == IF IsObject(el)
                     THEN PropsAssign(flattened, flattenObject(el, arrayKey, separator).props)
                     ELSE PropsSet(flattened, arrayKey, el)
       IN FlattenArray(value, i + 1, currentKey, separator, next)

\* the loop `for (let key in obj)` with its accumulator `flattened`
FlattenEntries(entries, parentKey, separator, flattened) ==
  IF entries = <<>> THEN flattened
  ELSE LET key == entries[1].key
           value == entries[1].val
           currentKey == IF parentKey # "" THEN parentKey \o separator \o key ELSE key
           next == IF IsObject(value)
                     THEN IF value.k = "array"
                            THEN FlattenArray(value, 0, currentKey, separator, flattened)
                            ELSE PropsAssign(flattened,
                                             flattenObject(value, currentKey, separator).props)
                     ELSE IF value.k = "function"
                            THEN PropsSet(flattened, currentKey, FunctionMarker(value.src))
                            ELSE PropsSet(flattened, currentKey, value)
       IN FlattenEntries(Tail(entries), parentKey, separator, next)

flattenObject(obj, parentKey, separator) ==
  Obj(FlattenEntries(OwnEntries(obj), parentKey, separator, <<>>))

(***************************************************************************)
(* objectUtils.ts: unflattenObject                                         *)
(***************************************************************************)
RECURSIVE SplitFrom(_, _, _, _)
SplitFrom(s, separator, i, cur) ==
  IF i > Len(s) THEN <<cur>>
  ELSE IF SubSeq(s, i, i) = separator
         THEN <<cur>> \o SplitFrom(s, separator, i + 1, "")
         ELSE SplitFrom(s, separator, i + 1, cur \o SubSeq(s, i, i))

\* key.split(separator), for a one-character separator
Split(s, separator) == SplitFrom(s, separator, 1, "")

RECURSIVE DigitsStart(_, _)
\* the least i with s[i..hi] all digits
DigitsStart(s, hi) ==
  IF hi >= 1 /\ IsDigit(SubSeq(s, hi, hi)) THEN DigitsStart(s, hi - 1) ELSE hi + 1

\* part.match(/^(.*)\[(\d+)\]$/): [match, name, index]
ArrayMatch(part) ==
  LET n == Len(part)
      start == DigitsStart(part, n - 1)
      ok == /\ n >= 3
            /\ SubSeq(part, n, n) = "]"
            /\ start <= n - 1
            /\ start >= 2
            /\ SubSeq(part, start - 1, start - 1) = "["
  IN IF ok
       THEN [match |-> TRUE, name |-> SubSeq(part, 1, start - 2),
             index |-> ParseInt(SubSeq(part, start, n - 1))]
       ELSE [match |-> FALSE, name |-> part, index |-> 0]

\* the source texts that compile to a function
FunctionSources == {"() => 42", "function () { return 1; }"}

\* what is assigned at the terminal segment: a marker is compiled by
\* new Function('return ' + value.__function__)(), anything else is assigned
\* as it is.  [v, err]
Revive(value) ==
  IF IsObject(value) /\ HasKey(value.props, "__function__")
    THEN LET src == PropsGet(value.props, "__function__") IN
         IF src.k = "string" /\ src.s \in FunctionSources
           THEN [v |-> Func(src.s), err |-> ""]
           ELSE IF src.k \in {"number", "boolean", "null", "undefined", "NaN"}
                  THEN [v |-> src, err |-> ""]
                  ELSE [v |-> Undefined, err |-> "SyntaxError"]
    ELSE [v |-> value, err |-> ""]

RECURSIVE PutPath(_, _, _)
\* the inner loop `for (let i = 0; i < path.length; i++)` from segment path[1]
\* on, with `current` the container reached so far: [v, err] where v is
\* `current` after the assignment
PutPath(current, path, value) ==
  LET m == ArrayMatch(path[1])
      last == Len(path) = 1
      leaf == Revive(value)
  IN
  IF m.match
    THEN LET part == m.name
             index == ToString(m.index)
             existing == GetProp(current, part)
             arr == IF ~Truthy(existing) THEN Arr(<<>>) ELSE existing
         IN
         IF arr.k = "function"
           THEN [v |-> current, err |-> IF last THEN leaf.err ELSE ""]
         ELSE IF ~IsObject(arr)
           THEN [v |-> current, err |-> "TypeError"]
         ELSE IF last
           THEN [v |-> SetProp(current, part, SetProp(arr, index, leaf.v)), err |-> leaf.err]
         ELSE LET el == GetProp(arr, index)
                  child == IF IsObject(el) THEN el ELSE Obj(<<>>)
                  r == PutPath(child, Tail(path), value)
              IN [v |-> SetProp(current, part, SetProp(arr, index, r.v)), err |-> r.err]
    ELSE IF last
           THEN [v |-> SetProp(current, path[1], leaf.v), err |-> leaf.err]
           ELSE LET el == GetProp(current, path[1])
                    child == IF IsObject(el) THEN el ELSE Obj(<<>>)
                    r == PutPath(child, Tail(path), value)
                IN [v |-> SetProp(current, path[1], r.v), err |-> r.err]

RECURSIVE UnflattenEntries(_, _, _)
\* the loop `for (const key in flattened)` with its accumulator `result`
UnflattenEntries(entries, separator, result) ==
  IF entries = <<>> THEN [v |-> result, err |-> ""]
  ELSE LET r == PutPath(result, Split(entries[1].key, separator), entries[1].val) IN
       IF r.err # "" THEN r ELSE UnflattenEntries(Tail(entries), separator, r.v)

\* [v, err]: the rebuilt object, or the exception thrown on the way
unflattenObject(flattened, separator) ==
  UnflattenEntries(OwnEntries(flattened), separator, Obj(<<>>))

(***************************************************************************)
(* JavaScript operators used by the callbacks of the model                 *)
(***************************************************************************)
RECURSIVE JsToString(_)
RECURSIVE JoinElems(_, _)
\* Array.prototype.join(","): null, undefined and holes give ""
JoinElems(elems, i) ==
  IF i > Len(elems) THEN ""
  ELSE (IF i > 1 THEN "," ELSE "")
       \o (IF elems[i].k \in {"null", "undefined", "hole"} THEN "" ELSE JsToString(elems[i]))
       \o JoinElems(elems, i + 1)

\* String(v), as in a template literal
JsToString(v) ==
  CASE v.k = "number" -> ToString(v.n)
    [] v.k = "string" -> v.s
    [] v.k = "boolean" -> IF v.b THEN "true" ELSE "false"
    [] v.k = "function" -> v.src
    [] v.k = "object" -> "[object Object]"
    [] v.k = "array" -> JoinElems(v.elems, 1)
    [] v.k = "hole" -> "undefined"
    [] OTHER -> v.k

\* ToPrimitive(v): objects, arrays and functions become their string
ToPrimitive(v) == IF v.k \in {"object", "array", "function"} THEN Str(JsToString(v)) ELSE v

\* ToNumber(v)
ToNumber(v) ==
  LET p == ToPrimitive(v) IN
  CASE p.k = "number" -> p
    [] p.k = "null" -> Num(0)
    [] p.k = "boolean" -> Num(IF p.b THEN 1 ELSE 0)
    [] p.k = "string" -> IF AllDigits(p.s) THEN Num(ParseInt(p.s)) ELSE NaN
    [] OTHER -> NaN

\* x * y
JsMul(x, y) ==
  LET a == ToNumber(x)
      b == ToNumber(y)
  IN IF a.k = "NaN" \/ b.k = "NaN" THEN NaN ELSE Num(a.n * b.n)

\* x + y
JsAdd(x, y) ==
  LET a == ToPrimitive(x)
      b == ToPrimitive(y)
  IN IF a.k = "string" \/ b.k = "string"
       THEN Str(JsToString(a) \o JsToString(b))
       ELSE LET m == ToNumber(a)
                n == ToNumber(b)
            IN IF m.k = "NaN" \/ n.k = "NaN" THEN NaN ELSE Num(m.n + n.n)

(***************************************************************************)
(* The callbacks and derivation functions the embedding program passes to  *)
(* effect and computed.  A body is a sequence of statements; a read        *)
(* appends the value read to the registers, an expression is evaluated     *)
(* over the registers.  Signals are named by their creation index.         *)
(***************************************************************************)
\* the argument of set: a value, or an updater named f
Value(v) == [u |-> "value", v |-> v]
Updater(f) == [u |-> "fn", f |-> f]
Rd(s) == [op |-> "read", s |-> s]
\* if (regs[i]) s.value
RdIf(i, s) == [op |-> "readIf", i |-> i, s |-> s]
Wr(s, e) == [op |-> "write", s |-> s, e |-> e]
Eff(f) == [op |-> "effect", f |-> f]
SetTo(s, u) == [op |-> "set", s |-> s, u |-> u]
Throw == [op |-> "throw"]
\* if (regs[i]) throw new Error()
ThrowIf(i) == [op |-> "throwIf", i |-> i]
Lit(v) == [e |-> "lit", v |-> v]
Reg(i) == [e |-> "reg", i |-> i]
Mul(a, b) == [e |-> "mul", a |-> a, b |-> b]
Add(a, b) == [e |-> "add", a |-> a, b |-> b]
Tmpl(pre, a) == [e |-> "tmpl", pre |-> pre, a |-> a]
Fn(body, ret) == [body |-> body, ret |-> ret]

RECURSIVE Eval(_, _)
Eval(e, regs) ==
  CASE e.e = "lit" -> e.v
    [] e.e = "reg" -> regs[e.i]
    [] e.e = "mul" -> JsMul(Eval(e.a, regs), Eval(e.b, regs))
    [] e.e = "add" -> JsAdd(Eval(e.a, regs), Eval(e.b, regs))
    [] e.e = "tmpl" -> Str(e.pre \o JsToString(Eval(e.a, regs)))

\* signal 1 is a (s, count, width), signal 2 is b (message, height)
Code ==
  [ readA    |-> Fn(<<Rd(1)>>, Lit(Undefined)),
    readB    |-> Fn(<<Rd(2)>>, Lit(Undefined)),
    noRead   |-> Fn(<<>>, Lit(Undefined)),
    readAB   |-> Fn(<<Rd(1), Rd(2)>>, Lit(Undefined)),
    nestB    |-> Fn(<<Rd(1), Eff("readB")>>, Lit(Undefined)),
    copyAB   |-> Fn(<<Rd(1), Wr(2, Reg(1))>>, Lit(Undefined)),
    countMsg |-> Fn(<<Rd(1), Wr(2, Tmpl("Count is ", Reg(1))), Rd(2)>>, Lit(Undefined)),
    double   |-> Fn(<<Rd(1)>>, Mul(Reg(1), Lit(Num(2)))),
    sum      |-> Fn(<<Rd(1), Rd(2)>>, Add(Reg(1), Reg(2))),
    area     |-> Fn(<<Rd(1), Rd(2)>>, Mul(Reg(1), Reg(2))),
    readThrow |-> Fn(<<Rd(1), Throw>>, Lit(Undefined)),
    nestThrow |-> Fn(<<Rd(1), Eff("readB"), Throw>>, Lit(Undefined)),
    selfA    |-> Fn(<<Rd(1), Wr(1, Reg(1))>>, Lit(Undefined)),
    regA     |-> Fn(<<Eff("readA"), Rd(1)>>, Lit(Undefined)),
    switchAB |-> Fn(<<Rd(1), RdIf(1, 2)>>, Lit(Undefined)),
    show     |-> Fn(<<Rd(1), Rd(3), Rd(1)>>, Lit(Undefined)),
    quad     |-> Fn(<<Rd(3)>>, Mul(Reg(1), Lit(Num(2)))),
    readD    |-> Fn(<<Rd(4)>>, Lit(Undefined)),
    setOnly  |-> Fn(<<SetTo(1, Value(Num(7)))>>, Lit(Undefined)),
    guardA   |-> Fn(<<Rd(1), ThrowIf(1)>>, Lit(Undefined)) ]

\* typeof fn === "function"
IsCallable(fn) == fn \in DOMAIN Code

\* an entry of a subscriber list: a callback passed to effect (target 0), or the
\* closure () => { _computedSignal.value = fn(); } that computed creates
Cb(name) == [name |-> name, target |-> 0]
Recompute(fn, target) == [name |-> fn, target |-> target]

(***************************************************************************)
(* nanoSignal.ts                                                           *)
(*                                                                         *)
(* The operators below work on a record st of the program's state:         *)
(*   signal      _signal.value of every signal, by creation index          *)
(*   effectsMap  the subscriber list of every signal (<<>>: no entry)      *)
(*   changes     changes._signal: the signal read last, 0 for undefined    *)
(*   runs        how many times each function body has been executed       *)
(*   log         what the current API call did: tracked reads, stores,     *)
(*               callback runs and subscriptions, in order                 *)
(*   err         the exception being thrown, "" for none                   *)
(***************************************************************************)
\* hist: the API calls the embedding program has made, each with its result
\* and with the stored values it found (was)
VARIABLES signal, effectsMap, changes, runs, log, hist

vars == <<signal, effectsMap, changes, runs, log, hist>>

\* the callback nesting at which the engine's call stack is exhausted
MaxDepth == 4
\* signals the program creates at most (two by nanoSignal, the rest by computed)
MaxSignals == 4
\* API calls the embedding program makes at most
MaxOps == 3

Handle(id) == [k |-> "signal", id |-> id]

\* nanoSignal(initVal): the new signal holds initVal as it is given
nanoSignal(st, initVal) ==
  [st EXCEPT !.signal = Append(@, initVal), !.effectsMap = Append(@, <<>>)]

_detectChange(st, s) ==
  [st EXCEPT !.changes = s,
             !.log = Append(@, [ev |-> "read", s |-> s, v |-> st.signal[s]])]

\* signal.value = stored
Store(st, s, stored) ==
  [st EXCEPT !.signal[s] = stored,
             !.log = Append(@, [ev |-> "store", s |-> s, v |-> stored])]

_setSignalValue(st, s, val) ==
  IF IsObject(val) THEN Store(st, s, flattenObject(val, "", ".")) ELSE Store(st, s, val)

\* { ...a, ...b }
Spread(a, b) == Obj(PropsAssign(PropsAssign(<<>>, OwnEntries(a)), OwnEntries(b)))

_setSignalObject(st, s, obj) ==
  [st |-> _setSignalValue(st, s, Spread(st.signal[s], flattenObject(obj, "", "."))),
   ret |-> Bool(TRUE)]

\* the updater functions the embedding program passes to set: [ret, arg], the
\* value returned and the argument as the call leaves it
\*   setAge   val => { val.age = 2 }
\*   setA     val => { val.a = 7 }
\*   withAge  val => ({ age: 3 })
\*   addFive  val => val + 5
\*   toSeven  val => 7
\*   toZero   val => 0
UpdaterNames == {"setAge", "setA", "withAge"}
ValueUpdaters == {"addFive", "toSeven", "toZero"}
UpdaterApply(f, val) ==
  CASE f = "setAge" -> [ret |-> Undefined, arg |-> SetProp(val, "age", Num(2))]
    [] f = "setA" -> [ret |-> Undefined, arg |-> SetProp(val, "a", Num(7))]
    [] f = "withAge" -> [ret |-> Obj(<<Prop("age", Num(3))>>), arg |-> val]
    [] f = "addFive" -> [ret |-> JsAdd(val, Num(5)), arg |-> val]
    [] f = "toSeven" -> [ret |-> Num(7), arg |-> val]
    [] f = "toZero" -> [ret |-> Num(0), arg |-> val]

\* set, after `const returnValue = fnOrObj(newValue)`: call is [ret, arg]
SetReturned(st, s, call) ==
  IF Truthy(call.ret)
    THEN _setSignalObject(st, s, call.ret)
    ELSE [st |-> _setSignalValue(st, s, Spread(st.signal[s], flattenObject(call.arg, "", "."))),
          ret |-> Bool(TRUE)]

\* the call fnOrObj(newValue), which ends as call = [ret, arg]
Called(st, f, newValue, call) ==
  [st EXCEPT !.log = Append(@, [ev |-> "update", f |-> f, arg |-> newValue,
                                ret |-> call.ret])]

\* set, after `const newValue = unflattenObject(signal.value)`: newValue is [v, err]
SetUnflattened(st, s, f, newValue) ==
  IF newValue.err # ""
    THEN [st |-> [st EXCEPT !.err = newValue.err], ret |-> Undefined]
    ELSE SetReturned(Called(st, f, newValue.v, UpdaterApply(f, newValue.v)), s,
                     UpdaterApply(f, newValue.v))

\* the value the call leaves in the signal
Stored(st, s) == [st |-> st, ret |-> st.signal[s]]

\* set(signal, fnOrObj): [st, ret]
set(st, s, fnOrObj) ==
  IF fnOrObj.u = "value" /\ IsObject(fnOrObj.v)
    THEN _setSignalObject(st, s, fnOrObj.v)
  ELSE IF fnOrObj.u = "fn"
    THEN SetUnflattened(st, s, fnOrObj.f, unflattenObject(st.signal[s], "."))
  ELSE Stored(_setSignalValue(st, s, fnOrObj.v), s)

\* the getter's return of an unflattened value r = [v, err]
Unflattened(st, r) == [st |-> [st EXCEPT !.err = r.err], ret |-> r.v]

\* a getter that returns the value without `_detectChange(signal)`
valueGet_untracked(st, s) ==
  IF IsObject(st.signal[s])
    THEN Unflattened(st, unflattenObject(st.signal[s], "."))
    ELSE [st |-> st, ret |-> st.signal[s]]

\* get value(): [st, ret]
valueGet(st, s) ==
  IF IsObject(st.signal[s])
    THEN Unflattened(_detectChange(st, s), unflattenObject(st.signal[s], "."))
    ELSE [st |-> _detectChange(st, s), ret |-> st.signal[s]]

RECURSIVE RunBody(_, _, _, _)
RECURSIVE CallFn(_, _, _)
RECURSIVE RunCallback(_, _, _)
RECURSIVE RunEffectsFrom(_, _, _, _)
RECURSIVE _runEffects(_, _, _)
RECURSIVE valueSet(_, _, _, _)
RECURSIVE effect(_, _, _)

\* a faulty loop that notifies the whole list again, one level deeper, after
\* each callback
RunEffectsFrom_again(st, s, i, d) ==
  IF st.err # "" \/ i > Len(st.effectsMap[s]) THEN st
  ELSE RunEffectsFrom(RunCallback(st, st.effectsMap[s][i], d + 1), s, 1, d + 1)

\* a faulty loop that goes on to the next entry after an entry has thrown, and
\* rethrows at its end
RunEffectsFrom_resumed(st, s, i, d) ==
  IF i > Len(st.effectsMap[s]) THEN st
  ELSE RunEffectsFrom([RunCallback([st EXCEPT !.err = ""], st.effectsMap[s][i], d + 1)
                         EXCEPT !.err = IF st.err # "" THEN st.err ELSE @],
                      s, i + 1, d)

\* a faulty loop that runs the list from its last entry to its first
RunEffectsFrom_reversed(st, s, i, d) ==
  IF st.err # "" \/ i > Len(st.effectsMap[s]) THEN st
  ELSE RunEffectsFrom(RunCallback(st, st.effectsMap[s][Len(st.effectsMap[s]) + 1 - i], d + 1),
                      s, i + 1, d)

\* a subscriber that has been re-run is subscribed to the signal it read last,
\* when that is not the signal being notified and does not list it yet
Retrack(st, cb, s) ==
  IF /\ st.err = "" /\ st.changes # 0 /\ st.changes # s
     /\ \A i \in DOMAIN st.effectsMap[st.changes] : st.effectsMap[st.changes][i] # cb
    THEN [st EXCEPT !.effectsMap[st.changes] = Append(@, cb), !.changes = 0]
    ELSE st

\* a faulty loop that tracks the dependencies of each callback again
RunEffectsFrom_tracking(st, s, i, d) ==
  IF st.err # "" \/ i > Len(st.effectsMap[s]) THEN st
  ELSE RunEffectsFrom(Retrack(RunCallback(st, st.effectsMap[s][i], d + 1),
                              st.effectsMap[s][i], s), s, i + 1, d)

\* the loop `for (let effectFn of effectsMap.get(signal))` from position i on:
\* the array iterator reads the list as it is when each step is taken
RunEffectsFrom(st, s, i, d) ==
  IF st.err # "" \/ i > Len(st.effectsMap[s]) THEN st
  ELSE RunEffectsFrom(RunCallback(st, st.effectsMap[s][i], d + 1), s, i + 1, d)

\* a faulty _runEffects that finds the subscriber list by the signal's value:
\* it runs the list of the first signal that holds the value of s
_runEffects_byValue(st, s, d) ==
  LET t == CHOOSE t \in DOMAIN st.signal :
             /\ st.signal[t] = st.signal[s]
             /\ \A u \in DOMAIN st.signal : st.signal[u] = st.signal[s] => t <= u
  IN IF st.effectsMap[t] # <<>> THEN RunEffectsFrom(st, t, 1, d) ELSE st

\* a faulty _runEffects that runs no subscriber
_runEffects_none(st, s, d) == st

_runEffects(st, s, d) ==
  IF st.effectsMap[s] # <<>> THEN RunEffectsFrom(st, s, 1, d) ELSE st

\* a faulty setter that runs the subscribers before it stores the value
valueSet_late(st, s, val, d) == _setSignalValue(_runEffects(st, s, d), s, val)

\* a setter with change detection: it stores the value and notifies the
\* subscribers only when the value differs from the one stored
valueSet_distinct(st, s, val, d) ==
  IF st.signal[s] = val
    THEN _setSignalValue(st, s, val)
    ELSE _runEffects(_setSignalValue(st, s, val), s, d)

\* a setter with a cycle breaker: an unchanged value runs no subscriber
valueSet_changed(st, s, val, d) ==
  IF st.signal[s] = val THEN st ELSE _runEffects(_setSignalValue(st, s, val), s, d)

\* set value(val)
valueSet(st, s, val, d) == _runEffects(_setSignalValue(st, s, val), s, d)

\* a faulty `// Set Effects` block that skips a callback already in the list
Subscribe_once(st, cb) ==
  IF st.err # "" THEN st
  ELSE IF st.changes # 0
         THEN [st EXCEPT !.effectsMap[st.changes] =
                           IF \E i \in DOMAIN @ : @[i] = cb THEN @ ELSE Append(@, cb),
                         !.changes = 0,
                         !.log = Append(@, [ev |-> "subscribe", cb |-> cb, s |-> st.changes])]
         ELSE st

\* a faulty `// Set Effects` block without `changes._signal = undefined`
Subscribe_keep(st, cb) ==
  IF st.err # "" THEN st
  ELSE IF st.changes # 0
         THEN [st EXCEPT !.effectsMap[st.changes] = Append(@, cb),
                         !.log = Append(@, [ev |-> "subscribe", cb |-> cb, s |-> st.changes])]
         ELSE st

\* a faulty `// Set Effects` block that puts fn at the head of the list
Subscribe_first(st, cb) ==
  IF st.err # "" THEN st
  ELSE IF st.changes # 0
         THEN [st EXCEPT !.effectsMap[st.changes] = <<cb>> \o @,
                         !.changes = 0,
                         !.log = Append(@, [ev |-> "subscribe", cb |-> cb, s |-> st.changes])]
         ELSE st

\* a faulty effect that reaches the `// Set Effects` block although fn threw
Subscribe_always(st, cb) ==
  IF st.changes # 0
    THEN [st EXCEPT !.effectsMap[st.changes] = Append(@, cb),
                    !.changes = 0,
                    !.log = Append(@, [ev |-> "subscribe", cb |-> cb, s |-> st.changes])]
    ELSE st

\* effect, after fn() has returned: the `// Set Effects` block
Subscribe(st, cb) ==
  IF st.err # "" THEN st
  ELSE IF st.changes # 0
         THEN [st EXCEPT !.effectsMap[st.changes] = Append(@, cb),
                         !.changes = 0,
                         !.log = Append(@, [ev |-> "subscribe", cb |-> cb, s |-> st.changes])]
         ELSE st

\* a faulty effect that runs fn and subscribes it nowhere
effect_untracked(st, cb, d) == RunCallback(st, cb, d + 1)

\* effect(fn)
effect(st, cb, d) == Subscribe(RunCallback(st, cb, d + 1), cb)

\* a body after its statement `s.value` has returned r = [st, ret]
AfterRead(r, stmts, regs, d) == RunBody(r.st, Tail(stmts), Append(regs, r.ret), d)

\* the statements of a function body, from the first of stmts on: [st, regs]
RunBody(st, stmts, regs, d) ==
  IF stmts = <<>> \/ st.err # "" THEN [st |-> st, regs |-> regs]
  ELSE CASE stmts[1].op = "read" ->
              AfterRead(valueGet(st, stmts[1].s), stmts, regs, d)
         [] stmts[1].op = "readIf" ->
              IF Truthy(regs[stmts[1].i])
                THEN AfterRead(valueGet(st, stmts[1].s), stmts, regs, d)
                ELSE RunBody(st, Tail(stmts), Append(regs, Undefined), d)
         [] stmts[1].op = "write" ->
              RunBody(valueSet(st, stmts[1].s, Eval(stmts[1].e, regs), d),
                      Tail(stmts), regs, d)
         [] stmts[1].op = "set" ->
              RunBody(set(st, stmts[1].s, stmts[1].u).st, Tail(stmts), regs, d)
         [] stmts[1].op = "effect" ->
              RunBody(effect(st, Cb(stmts[1].f), d), Tail(stmts), regs, d)
         [] stmts[1].op = "throw" ->
              [st |-> [st EXCEPT !.err = "Error"], regs |-> regs]
         [] stmts[1].op = "throwIf" ->
              IF Truthy(regs[stmts[1].i])
                THEN [st |-> [st EXCEPT !.err = "Error"], regs |-> regs]
                ELSE RunBody(st, Tail(stmts), regs, d)

\* the value a body returns, r = [st, regs] being how its statements ended
Returned(r, fn) ==
  [st |-> r.st, ret |-> IF r.st.err # "" THEN Undefined ELSE Eval(Code[fn].ret, r.regs)]

\* a call fn() at callback nesting d: [st, ret]
CallFn(st, fn, d) ==
  IF d > MaxDepth
    THEN [st |-> [st EXCEPT !.err = "RangeError"], ret |-> Undefined]
    ELSE Returned(RunBody([st EXCEPT !.runs[fn] = @ + 1], Code[fn].body, <<>>, d), fn)

Enter(st, cb, d) == [st EXCEPT !.log = Append(@, [ev |-> "enter", cb |-> cb, d |-> d])]

Exit(st, cb, d) ==
  IF st.err # "" THEN st
  ELSE [st EXCEPT !.log = Append(@, [ev |-> "exit", cb |-> cb, d |-> d])]

\* a faulty closure that stores the recomputed value without notifying the
\* subscribers of the computed signal
Assign_silent(r, cb, d) ==
  IF r.st.err # "" \/ cb.target = 0 THEN r.st
  ELSE _setSignalValue(r.st, cb.target, r.ret)

\* a faulty closure that drops the recomputed value
Assign_dropped(r, cb, d) == r.st

\* a subscriber-list entry after its function has returned r = [st, ret]: the
\* closure of a computed signal assigns the result to _computedSignal.value
Assign(r, cb, d) ==
  IF r.st.err # "" \/ cb.target = 0 THEN r.st
  ELSE valueSet(r.st, cb.target, r.ret, d)

\* one run of a subscriber-list entry, from its call to its return
RunCallback(st, cb, d) == Exit(Assign(CallFn(Enter(st, cb, d), cb.name, d), cb, d), cb, d)

\* a faulty computed that subscribes the closure without running it
Derived_once(r, fn, d) ==
  IF r.st.err # "" THEN [st |-> r.st, ret |-> Undefined]
  ELSE [st |-> Subscribe(nanoSignal(r.st, r.ret), Recompute(fn, Len(r.st.signal) + 1)),
        ret |-> Handle(Len(r.st.signal) + 1)]

\* computed, after `fn()` has returned r = [st, ret]
Derived(r, fn, d) ==
  IF r.st.err # "" THEN [st |-> r.st, ret |-> Undefined]
  ELSE [st |-> effect(nanoSignal(r.st, r.ret), Recompute(fn, Len(r.st.signal) + 1), d),
        ret |-> Handle(Len(r.st.signal) + 1)]

\* a faulty computed that calls fn() without the test `typeof fn === "function"`
computed_throwing(st, fn, d) ==
  IF IsCallable(fn)
    THEN Derived(CallFn(st, fn, d + 1), fn, d)
    ELSE [st |-> [st EXCEPT !.err = "TypeError"], ret |-> Undefined]

\* computed(fn): [st, ret]
computed(st, fn, d) ==
  IF IsCallable(fn)
    THEN Derived(CallFn(st, fn, d + 1), fn, d)
    ELSE [st |-> st, ret |-> Bool(FALSE)]

(***************************************************************************)
(* The embedding program: one action per API call                          *)
(***************************************************************************)
\* the state the call starts from; the log is that of the call alone
St ==
  [signal |-> signal, effectsMap |-> effectsMap, changes |-> changes,
   runs |-> runs, log |-> <<>>, err |-> ""]

Call(op, s, f, arg) == [op |-> op, s |-> s, f |-> f, arg |-> arg]

\* the call returns (or throws) and leaves the program in state st
Return(st, call, ret) ==
  /\ signal' = st.signal
  /\ effectsMap' = st.effectsMap
  /\ changes' = st.changes
  /\ runs' = st.runs
  /\ log' = st.log
  /\ hist' = Append(hist, [op |-> call.op, s |-> call.s, f |-> call.f, arg |-> call.arg,
                           ret |-> IF st.err = "" THEN ret ELSE Undefined,
                           err |-> st.err, was |-> signal])

\* the same, for a call that ends as r = [st, ret]
Returns(r, call) == Return(r.st, call, r.ret)

RECURSIVE MaxRef(_, _)
\* the largest signal index the statements (and the callbacks they register) name
MaxRef(stmts, i) ==
  IF i > Len(stmts) THEN 0
  ELSE LET c == stmts[i]
           here == IF c.op \in {"read", "readIf", "write", "set"} THEN c.s
                   ELSE IF c.op = "effect" THEN MaxRef(Code[c.f].body, 1) ELSE 0
           rest == MaxRef(stmts, i + 1)
       IN IF here > rest THEN here ELSE rest

\* every signal fn names has been created
InScope(fn) == MaxRef(Code[fn].body, 1) <= Len(signal)

\* signal.value
ReadValue(s) == Returns(valueGet(St, s), Call("read", s, "", Undefined))

\* signal.value = val
WriteValue(s, val) ==
  Return(valueSet(St, s, val, 0), Call("write", s, "", val), Undefined)

\* signal.set(fnOrObj)
CallSet(s, fnOrObj) ==
  Returns(set(St, s, fnOrObj),
          Call("set", s, IF fnOrObj.u = "fn" THEN fnOrObj.f ELSE "",
               IF fnOrObj.u = "fn" THEN Undefined ELSE fnOrObj.v))

\* effect(fn)
CallEffect(fn) ==
  /\ InScope(fn)
  /\ Return(effect(St, Cb(fn), 0), Call("effect", 0, fn, Undefined), Undefined)

\* computed(fn)
CallComputed(fn) ==
  /\ Len(signal) < MaxSignals
  /\ IsCallable(fn) => InScope(fn)
  /\ Returns(computed(St, fn, 0), Call("computed", 0, fn, Undefined))

\* the module as it is loaded: no signal, an empty effectsMap, an empty slot
Loaded ==
  [signal |-> <<>>, effectsMap |-> <<>>, changes |-> 0,
   runs |-> [f \in DOMAIN Code |-> 0], log |-> <<>>, err |-> ""]

\* the state after a = nanoSignal(x), b = nanoSignal(y)
InitState(x, y) == nanoSignal(nanoSignal(Loaded, x), y)

Start(st) ==
  /\ signal = st.signal
  /\ effectsMap = st.effectsMap
  /\ changes = st.changes
  /\ runs = st.runs
  /\ log = st.log
  /\ hist = <<>>

(***************************************************************************)
(* Spec: two signals holding primitives; the program reads, writes, sets,  *)
(* registers effects and creates computed signals                          *)
(***************************************************************************)
InitValues == {<<Num(0), Str("")>>, <<Num(5), Num(10)>>, <<Num(1), Num(1)>>}
WriteValues == {Num(5), Num(7)}
SetValues == {Num(3)}
Effects ==
  {"readA", "readB", "noRead", "readAB", "nestB", "copyAB", "countMsg", "switchAB"}
Deriveds == {"double", "sum", "area"}

Init == \E xy \in InitValues : Start(InitState(xy[1], xy[2]))

DoRead == Len(hist) < MaxOps /\ \E s \in DOMAIN signal : ReadValue(s)

DoWrite == Len(hist) < MaxOps /\ \E s \in DOMAIN signal : \E v \in WriteValues : WriteValue(s, v)

DoSet == Len(hist) < MaxOps /\ \E s \in DOMAIN signal : \E v \in SetValues : CallSet(s, Value(v))

DoEffect == Len(hist) < MaxOps /\ \E f \in Effects : CallEffect(f)

DoComputed == Len(hist) < MaxOps /\ \E f \in Deriveds : CallComputed(f)

Next == DoRead \/ DoWrite \/ DoSet \/ DoEffect \/ DoComputed

Spec == Init /\ [][Next]_vars

(***************************************************************************)
(* SpecObject: one signal u holding an object; the program reads it,       *)
(* writes objects to it, merges objects into it with set, updates it with  *)
(* set(fn), and registers an effect that reads it                          *)
(***************************************************************************)
User == Obj(<<Prop("name", Str("x")), Prop("age", Num(1))>>)
Nested == Obj(<<Prop("a", Obj(<<Prop("b", Num(1))>>))>>)
ObjectValues ==
  {User, Obj(<<Prop("a", Num(5))>>), Obj(<<Prop("f", Func("() => 42"))>>), Nested}
Updates ==
  {Obj(<<Prop("age", Num(2))>>),
   Obj(<<Prop("a", Obj(<<Prop("b", Num(1))>>))>>),
   Obj(<<Prop("a", Num(7))>>)}

InitObject == \E x \in ObjectValues : Start(nanoSignal(Loaded, x))

ObjectRead == Len(hist) < MaxOps /\ ReadValue(1)

ObjectWrite == Len(hist) < MaxOps /\ \E v \in ObjectValues : WriteValue(1, v)

ObjectSet == Len(hist) < MaxOps /\ \E o \in Updates : CallSet(1, Value(o))

ObjectUpdate == Len(hist) < MaxOps /\ \E f \in UpdaterNames : CallSet(1, Updater(f))

ObjectEffect == Len(hist) < MaxOps /\ CallEffect("readA")

NextObject == ObjectRead \/ ObjectWrite \/ ObjectSet \/ ObjectUpdate \/ ObjectEffect

SpecObject == InitObject /\ [][NextObject]_vars

(***************************************************************************)
(* SpecUpdate: two signals holding primitives; the program reads them,     *)
(* writes them, updates with set(fn) those that hold a primitive, and      *)
(* registers an effect                                                     *)
(***************************************************************************)
UpdateRead == Len(hist) < MaxOps /\ \E s \in DOMAIN signal : ReadValue(s)

UpdateWrite ==
  Len(hist) < MaxOps /\ \E s \in DOMAIN signal : \E v \in WriteValues : WriteValue(s, v)

UpdateSet ==
  Len(hist) < MaxOps /\ \E s \in DOMAIN signal : \E f \in ValueUpdaters :
    ~IsObject(signal[s]) /\ CallSet(s, Updater(f))

UpdateEffects == {"readA", "setOnly"}
UpdateEffect == Len(hist) < MaxOps /\ \E f \in UpdateEffects : CallEffect(f)

NextUpdate == UpdateRead \/ UpdateWrite \/ UpdateSet \/ UpdateEffect

SpecUpdate == Init /\ [][NextUpdate]_vars

(***************************************************************************)
(* SpecFault: two signals holding primitives; the program registers        *)
(* callbacks that throw, a callback that writes the signal it reads and a   *)
(* callback that registers another one, and passes values that are no      *)
(* function to computed                                                    *)
(***************************************************************************)
\* the callbacks whose body throws
Throwing == {"readThrow", "nestThrow"}
FaultEffects == Throwing \cup {"selfA", "readA", "regA"}
\* arguments of computed: a string that is no function, and a function
FaultDeriveds == {"notCallable", "double"}

FaultRead == Len(hist) < MaxOps /\ \E s \in DOMAIN signal : ReadValue(s)

FaultWrite == Len(hist) < MaxOps /\ \E s \in DOMAIN signal : \E v \in WriteValues : WriteValue(s, v)

FaultEffect == Len(hist) < MaxOps /\ \E f \in FaultEffects : CallEffect(f)

FaultComputed == Len(hist) < MaxOps /\ \E f \in FaultDeriveds : CallComputed(f)

NextFault == FaultRead \/ FaultWrite \/ FaultEffect \/ FaultComputed

SpecFault == Init /\ [][NextFault]_vars

(***************************************************************************)
(* SpecAlias: one signal u created from an object o that the program       *)
(* keeps; the program reads u, merges objects into it with set, assigns to *)
(* a property of o, and assigns to a property of a value it has just read  *)
(***************************************************************************)
AliasValues == {User, Nested, Obj(<<Prop("a", Num(5))>>)}
AssignedKeys == {"a", "age"}
AssignedPaths == {<<"a">>, <<"a", "b">>}
AssignedValue == Num(9)

\* `value: initVal`: signal.value is the very object passed to nanoSignal
\* until _setSignalValue replaces it by a new flattened object
HoldsInitial(s) ==
  \A i \in DOMAIN hist : ~(hist[i].s = s /\ hist[i].op \in {"write", "set"})

\* `current[part] = value`: the object the getter returns has, at key, the
\* very object stored at key when that is an object and no function marker
SharedAt(s, key) ==
  /\ IsObject(signal[s]) /\ IsObject(GetProp(signal[s], key))
  /\ ~HasKey(GetProp(signal[s], key).props, "__function__")

InitAlias == \E x \in AliasValues : Start(nanoSignal(Loaded, x))

AliasRead == Len(hist) < MaxOps /\ ReadValue(1)

AliasSet == Len(hist) < MaxOps /\ \E o \in Updates : CallSet(1, Value(o))

\* o[key] = val, o being the object passed to nanoSignal
AssignInitial(s, key, val) ==
  Return([St EXCEPT !.signal[s] = IF HoldsInitial(s) THEN SetProp(@, key, val) ELSE @],
         Call("assignInitial", s, key, val), Undefined)

\* const r = u.value; r[p[1]] = val, or r[p[1]][p[2]] = val when r[p[1]] is
\* an object
AssignRead(s, p, val) ==
  /\ valueGet(St, s).st.err = ""
  /\ IsObject(valueGet(St, s).ret)
  /\ Len(p) = 2 => IsObject(GetProp(valueGet(St, s).ret, p[1]))
  /\ Return([valueGet(St, s).st EXCEPT !.signal[s] =
                IF Len(p) = 2 /\ SharedAt(s, p[1])
                  THEN SetProp(@, p[1], SetProp(GetProp(@, p[1]), p[2], val))
                  ELSE @],
            Call("assignRead", s, IF Len(p) = 2 THEN p[1] \o "." \o p[2] ELSE p[1], val),
            Undefined)

AliasAssignInitial ==
  Len(hist) < MaxOps /\ \E key \in AssignedKeys : AssignInitial(1, key, AssignedValue)

AliasAssignRead ==
  Len(hist) < MaxOps /\ \E p \in AssignedPaths : AssignRead(1, p, AssignedValue)

NextAlias == AliasRead \/ AliasSet \/ AliasAssignInitial \/ AliasAssignRead

SpecAlias == InitAlias /\ [][NextAlias]_vars

(***************************************************************************)
(* SpecAbort: two signals holding primitives; the program registers a      *)
(* callback that throws when a is truthy and callbacks that only read,     *)
(* reads and writes                                                        *)
(***************************************************************************)
AbortEffects == {"guardA", "readA", "readB"}

AbortRead == Len(hist) < MaxOps /\ \E s \in DOMAIN signal : ReadValue(s)

AbortWrite ==
  Len(hist) < MaxOps /\ \E s \in DOMAIN signal : \E v \in WriteValues : WriteValue(s, v)

AbortEffect == Len(hist) < MaxOps /\ \E f \in AbortEffects : CallEffect(f)

NextAbort == AbortRead \/ AbortWrite \/ AbortEffect

SpecAbort == Init /\ [][NextAbort]_vars

(***************************************************************************)
(* SpecChain: as setupCounter of main.ts, the program starts with a signal *)
(* a and c = computed(() => a.value * 2); it then creates                  *)
(* d = computed(() => c.value * 2), registers effects that read c and d,   *)
(* reads and writes                                                        *)
(***************************************************************************)
ChainEffects == {"show", "readD"}

InitChain ==
  \E xy \in InitValues : Start(computed(InitState(xy[1], xy[2]), "double", 0).st)

ChainRead == Len(hist) < MaxOps /\ \E s \in DOMAIN signal : ReadValue(s)

ChainWrite == Len(hist) < MaxOps /\ \E s \in DOMAIN signal : \E v \in WriteValues : WriteValue(s, v)

ChainEffect == Len(hist) < MaxOps /\ \E f \in ChainEffects : CallEffect(f)

ChainComputed == Len(hist) < MaxOps /\ CallComputed("quad")

NextChain == ChainRead \/ ChainWrite \/ ChainEffect \/ ChainComputed

SpecChain == InitChain /\ [][NextChain]_vars

(***************************************************************************)
(* SpecCodec: the program calls the codec of objectUtils.ts alone: it      *)
(* flattens a nested value, unflattens the result, and flattens that again *)
(***************************************************************************)
\* the nested values the program passes to flattenObject: leaves, containers
\* of leaves (Inner), containers of those (Mid), under the keys a and b
Leaves == {Num(1), Null, Func("() => 42")}
Inner ==
  Leaves \cup {Obj(<<>>), Arr(<<>>), Arr(<<Num(1), Num(2)>>)}
         \cup {Obj(<<Prop("b", l)>>) : l \in Leaves}
         \cup {Arr(<<l>>) : l \in Leaves}
Mid ==
  Inner \cup {Obj(<<Prop("c", i)>>) : i \in Inner}
        \cup {Arr(<<i>>) : i \in Inner}
        \cup {Arr(<<Num(1), i>>) : i \in Inner}
CodecInputs ==
  {Obj(<<Prop("a", m)>>) : m \in Mid}
    \cup {Obj(<<Prop("a", m), Prop("b", i)>>) : m \in Mid, i \in Inner}

\* a call of the codec returns r = [v, err]; it touches no signal
CodecReturns(op, arg, r) ==
  /\ hist' = Append(hist, [op |-> op, s |-> 0, f |-> "", arg |-> arg,
                           ret |-> IF r.err = "" THEN r.v ELSE Undefined,
                           err |-> r.err, was |-> signal])
  /\ UNCHANGED <<signal, effectsMap, changes, runs, log>>

InitCodec == Start(Loaded)

\* flat = flattenObject(v)
CodecFlatten ==
  /\ hist = <<>>
  /\ \E v \in CodecInputs :
       CodecReturns("flattenObject", v, [v |-> flattenObject(v, "", "."), err |-> ""])

\* back = unflattenObject(flat)
CodecUnflatten ==
  /\ hist # <<>> /\ Len(hist) < MaxOps
  /\ hist[Len(hist)].op = "flattenObject"
  /\ CodecReturns("unflattenObject", hist[Len(hist)].ret,
                  unflattenObject(hist[Len(hist)].ret, "."))

\* flattenObject(back)
CodecReflatten ==
  /\ hist # <<>> /\ Len(hist) < MaxOps
  /\ hist[Len(hist)].op = "unflattenObject" /\ hist[Len(hist)].err = ""
  /\ CodecReturns("flattenObject", hist[Len(hist)].ret,
                  [v |-> flattenObject(hist[Len(hist)].ret, "", "."), err |-> ""])

NextCodec == CodecFlatten \/ CodecUnflatten \/ CodecReflatten

SpecCodec == InitCodec /\ [][NextCodec]_vars

(***************************************************************************)
(* Properties of Spec                                                      *)
(***************************************************************************)
\* the call the program made last
Last == hist[Len(hist)]

\* what signal.value returns in the current state
Read(s) == valueGet(St, s).ret

\* the calls of effect and computed
Registrations == {i \in DOMAIN hist : hist[i].op \in {"effect", "computed"}}

\* the plain writes signal.value = v to s made after call k
WritesAfter(k, s) == {i \in DOMAIN hist : i > k /\ hist[i].op = "write" /\ hist[i].s = s}

\* call k is effect(fn), and the program calls neither effect nor computed
\* anywhere else
TrackedAlone(k, fn) ==
  /\ Registrations = {k}
  /\ hist[k].op = "effect" /\ hist[k].f = fn /\ hist[k].err = ""

\* call k is computed(fn), the program calls neither effect nor computed
\* anywhere else, and after it the program only reads, and writes a and b
DerivedAlone(k, fn) ==
  /\ Registrations = {k}
  /\ hist[k].op = "computed" /\ hist[k].f = fn /\ hist[k].err = ""
  /\ \A i \in DOMAIN hist : i > k =>
       \/ hist[i].op = "read"
       \/ hist[i].op = "write" /\ hist[i].s \in {1, 2}

\* the tracked reads, the runs of subscribers at nesting 1, and the
\* subscriptions of cb, in the log of a call
Reads(l) == SelectSeq(l, LAMBDA e : e.ev = "read")
TopRuns(l) == SelectSeq(l, LAMBDA e : e.ev \in {"enter", "exit"} /\ e.d = 1)
Subscriptions(l, cb) == SelectSeq(l, LAMBDA e : e.ev = "subscribe" /\ e.cb = cb)

\* the log of a call ran the subscribers of s one after the other, in the
\* order of the list, each one returning before the next starts and the last
\* one returning as the call ends
RanInOrder(l, s) ==
  /\ Len(TopRuns(l)) = 2 * Len(effectsMap[s])
  /\ \A i \in DOMAIN effectsMap[s] :
       /\ TopRuns(l)[2 * i - 1] = [ev |-> "enter", cb |-> effectsMap[s][i], d |-> 1]
       /\ TopRuns(l)[2 * i] = [ev |-> "exit", cb |-> effectsMap[s][i], d |-> 1]
  /\ \A p \in DOMAIN l :
       (l[p].ev = "exit" /\ l[p].d = 1) =>
         \/ p = Len(l)
         \/ l[p + 1].ev = "enter" /\ l[p + 1].d = 1
  /\ effectsMap[s] # <<>> => l[Len(l)].ev = "exit" /\ l[2].ev = "enter"

\* C1: when effect(cb) is the only registration the program makes and cb
\* reads only s, cb has run exactly 1 + n times after the n plain writes to s
\* that follow, whatever else the program reads, writes or sets
C1_TrackedSubscription ==
  \A k \in DOMAIN hist :
    TrackedAlone(k, "readA") =>
      /\ effectsMap[1] = <<Cb("readA")>>
      /\ runs["readA"] = 1 + Cardinality(WritesAfter(k, 1))

\* effect(readA) has been followed by two plain writes to a
C1_Witness ==
  \E k \in DOMAIN hist :
    /\ TrackedAlone(k, "readA")
    /\ Cardinality(WritesAfter(k, 1)) = 2
    /\ runs["readA"] = 3

\* C2: c = computed(f) with f reading only a: c.value is f(a.value) right
\* after the construction and after every plain write to a that follows
C2_ComputedPropagation ==
  \A k \in DOMAIN hist :
    DerivedAlone(k, "double") =>
      Read(hist[k].ret.id) = Eval(Code["double"].ret, <<Read(1)>>)

\* a plain write has changed a after computed(double), and c has followed
C2_Witness ==
  \E k \in DOMAIN hist :
    /\ DerivedAlone(k, "double")
    /\ WritesAfter(k, 1) # {}
    /\ Read(1) = Num(7)
    /\ Read(hist[k].ret.id) = Num(14)

\* C3: a callback that reads no signal is in no subscriber list once it has
\* been passed to effect, and only the calls of effect run it
C3_NoDependencyNeverSubscribed ==
  /\ \A s \in DOMAIN effectsMap : \A i \in DOMAIN effectsMap[s] :
       effectsMap[s][i] # Cb("noRead")
  /\ runs["noRead"] = Cardinality({i \in DOMAIN hist : hist[i].op = "effect" /\ hist[i].f = "noRead"})

\* C4: when effect(cb) returns and some signal was read during the run of cb,
\* cb has been appended to exactly one subscriber list, that of the signal
\* read last
C4_LastReadCapture ==
  (hist # <<>> /\ Last.op = "effect" /\ Last.err = "" /\ Reads(log) # <<>>) =>
    /\ Len(Subscriptions(log, Cb(Last.f))) = 1
    /\ Subscriptions(log, Cb(Last.f))[1].s = Reads(log)[Len(Reads(log))].s

\* C5: a plain write to s that returns has first stored the value and then
\* run the subscribers of s in the order of their subscription, each to its
\* end before the next
C5_SubscriberOrdering ==
  (hist # <<>> /\ Last.op = "write" /\ Last.err = "") =>
    /\ log[1] = [ev |-> "store", s |-> Last.s, v |-> Last.arg]
    /\ RanInOrder(log, Last.s)

\* a plain write has run two different subscribers of the signal
C5_Witness ==
  /\ hist # <<>> /\ Last.op = "write" /\ Last.err = ""
  /\ Len(effectsMap[Last.s]) = 2
  /\ effectsMap[Last.s][1] # effectsMap[Last.s][2]
  /\ Len(log) > 5

\* C6: set(x) with a primitive x stores x and runs the subscribers of the
\* signal, as the plain write of x does
C6_SetPrimitiveRunsSubscribers ==
  (hist # <<>> /\ Last.op = "set" /\ Last.f = "" /\ ~IsObject(Last.arg) /\ Last.err = "") =>
    /\ signal[Last.s] = Last.arg
    /\ log[1] = [ev |-> "store", s |-> Last.s, v |-> Last.arg]
    /\ RanInOrder(log, Last.s)

\* the paths of a value with what they hold, as flattenObject lists them
Flat(v) == flattenObject(v, "", ".").props

\* path p is path q or a path below q
Below(p, q) ==
  \/ p = q
  \/ /\ Len(p) > Len(q)
     /\ SubSeq(p, 1, Len(q)) = q
     /\ SubSeq(p, Len(q) + 1, Len(q) + 1) \in {".", "["}

\* v holds primitives only at its paths (no function)
Plain(v) == \A i \in DOMAIN Flat(v) : Flat(v)[i].val.k # "object"

\* what signal.value returned when the last call was made
ReadBefore(s) == valueGet([St EXCEPT !.signal = Last.was], s).ret

\* C7: set(o) with a plain object o on a signal that holds an object returns
\* true, and the value read afterwards has o's value at every path of o and
\* the value read before at every path that no path of o touches (here for
\* values that hold no function)
C7_PartialMerge ==
  (/\ hist # <<>> /\ Last.op = "set" /\ Last.f = "" /\ Last.err = ""
   /\ Last.arg.k = "object" /\ Plain(Last.arg)
   /\ ReadBefore(Last.s).k = "object" /\ Plain(ReadBefore(Last.s))) =>
    /\ Last.ret = Bool(TRUE)
    /\ \A i \in DOMAIN Flat(Last.arg) :
         PropsGet(Flat(Read(Last.s)), Flat(Last.arg)[i].key) = Flat(Last.arg)[i].val
    /\ \A i \in DOMAIN Flat(ReadBefore(Last.s)) :
         (\A j \in DOMAIN Flat(Last.arg) :
            /\ ~Below(Flat(ReadBefore(Last.s))[i].key, Flat(Last.arg)[j].key)
            /\ ~Below(Flat(Last.arg)[j].key, Flat(ReadBefore(Last.s))[i].key)) =>
           PropsGet(Flat(Read(Last.s)), Flat(ReadBefore(Last.s))[i].key)
             = Flat(ReadBefore(Last.s))[i].val

C9_DocumentedComputed ==
  (hist # <<>> /\ DerivedAlone(1, "area") /\ Read(2) = Num(10)) =>
    /\ (Len(hist) = 1 /\ Read(1) = Num(5)) => Read(hist[1].ret.id) = Num(50)
    /\ (Len(hist) = 2 /\ hist[2].op = "write" /\ hist[2].s = 1 /\ hist[2].arg = Num(7)) =>
         Read(hist[1].ret.id) = Num(70)

\* C10: after the effect that writes message from count, count.value = 5
\* runs the callback again, ends, and leaves message.value = "Count is 5"
C10_DocumentedEffect ==
  (Len(hist) = 2 /\ TrackedAlone(1, "countMsg")
     /\ hist[2].op = "write" /\ hist[2].s = 1 /\ hist[2].arg = Num(5)) =>
    /\ hist[2].err = ""
    /\ runs["countMsg"] = 2
    /\ Read(2) = Str("Count is 5")

(***************************************************************************)
(* Properties of set(fn)                                                   *)
(***************************************************************************)
\* the calls of updater functions in the log of a call
UpdaterCalls(l) == SelectSeq(l, LAMBDA e : e.ev = "update")

\* the state the last call started from, as far as the stored values go
Before == [St EXCEPT !.signal = Last.was]

\* C11: set(fn) calls fn exactly once, with the value a read of the signal
\* returned when the call was made; so set(val => val + 5) on a signal that
\* holds the number n leaves the signal reading n + 5
C11_UpdaterSeesReadValue ==
  (hist # <<>> /\ Last.op = "set" /\ Last.f # "" /\ Last.err = "") =>
    /\ Len(UpdaterCalls(log)) = 1
    /\ UpdaterCalls(log)[1].arg = ReadBefore(Last.s)
    /\ (Last.f = "addFive" /\ Last.was[Last.s].k = "number") =>
         Read(Last.s) = Num(Last.was[Last.s].n + 5)

\* C12: when the updater passed to set returns a primitive p other than
\* undefined, p becomes the stored value and the value read; when it returns
\* an object, the signal ends as set with that object would leave it
C12_UpdaterReturnReplaces ==
  (hist # <<>> /\ Last.op = "set" /\ Last.f # "" /\ Last.err = ""
     /\ UpdaterCalls(log) # <<>>) =>
    /\ UpdaterCalls(log)[1].ret.k \in {"number", "string", "boolean", "null", "NaN"} =>
         /\ signal[Last.s] = UpdaterCalls(log)[1].ret
         /\ Read(Last.s) = UpdaterCalls(log)[1].ret
    /\ UpdaterCalls(log)[1].ret.k = "object" =>
         signal[Last.s] = set(Before, Last.s, Value(UpdaterCalls(log)[1].ret)).st.signal[Last.s]

\* the updaters that return nothing and assign to their argument, each with
\* the assignment it makes
DraftUpdaters == {"setAge", "setA"}
Assigned(f) == Flat(UpdaterApply(f, Obj(<<>>)).arg)

\* C13: set(fn) on a signal that holds an object, with fn returning nothing
\* and assigning to its argument, returns true; the value read afterwards
\* has the assigned value at every assigned path and the value read before
\* at every path the assignment does not touch
C13_DraftMutation ==
  (/\ hist # <<>> /\ Last.op = "set" /\ Last.f \in DraftUpdaters /\ Last.err = ""
   /\ ReadBefore(Last.s).k = "object") =>
    /\ Last.ret = Bool(TRUE)
    /\ \A i \in DOMAIN Assigned(Last.f) :
         PropsGet(Flat(Read(Last.s)), Assigned(Last.f)[i].key) = Assigned(Last.f)[i].val
    /\ \A i \in DOMAIN Flat(ReadBefore(Last.s)) :
         (\A j \in DOMAIN Assigned(Last.f) :
            /\ ~Below(Flat(ReadBefore(Last.s))[i].key, Assigned(Last.f)[j].key)
            /\ ~Below(Assigned(Last.f)[j].key, Flat(ReadBefore(Last.s))[i].key)) =>
           PropsGet(Flat(Read(Last.s)), Flat(ReadBefore(Last.s))[i].key)
             = Flat(ReadBefore(Last.s))[i].val

(***************************************************************************)
(* Frame of a read, storage, failures                                      *)
(***************************************************************************)
\* the step is one call of the program, recorded as the last of hist'
CallStep == Len(hist') = Len(hist) + 1

\* C14: a read signal.value changes only the tracker slot, which becomes the
\* signal read: every stored value, every subscriber list and the number of
\* runs of every callback stay as they were, and no callback is entered
C14_ReadFrame ==
  [][(CallStep /\ Last'.op = "read") =>
       /\ signal' = signal
       /\ effectsMap' = effectsMap
       /\ runs' = runs
       /\ changes' = Last'.s
       /\ \A i \in DOMAIN log' : log'[i].ev = "read"]_vars

\* a read of a signal that has a subscriber, made right after a read of
\* another signal
C14_Witness ==
  /\ Len(hist) >= 2 /\ Last.op = "read" /\ hist[Len(hist) - 1].op = "read"
  /\ hist[Len(hist) - 1].s # Last.s
  /\ effectsMap[Last.s] # <<>>
  /\ changes = Last.s

\* a primitive value or null
Primitive(v) == v.k \in {"undefined", "null", "NaN", "number", "string", "boolean"}

\* a function marker { __function__: source }
IsMarker(v) ==
  v.k = "object" /\ Len(v.props) = 1 /\ v.props[1].key = "__function__"

\* v is a primitive, or a one-level map to primitives and function markers
FlatStored(v) ==
  \/ Primitive(v)
  \/ /\ v.k = "object"
     /\ \A i \in DOMAIN v.props : Primitive(v.props[i].val) \/ IsMarker(v.props[i].val)

\* C15: in every reachable state, the state right after nanoSignal(initVal)
\* included, the stored value of every signal is a primitive or a one-level
\* map from path strings to primitives or function markers
C15_FlatStorage == \A s \in DOMAIN signal : FlatStored(signal[s])

\* C16: effect(fn) with fn throwing ends with fn's exception, fn is in no
\* subscriber list afterwards, and fn runs only in those calls of effect: no
\* write runs it
C16_ThrowingEffect ==
  \A f \in Throwing :
    /\ \A i \in DOMAIN hist :
         (hist[i].op = "effect" /\ hist[i].f = f) => hist[i].err = "Error"
    /\ \A s \in DOMAIN effectsMap : \A j \in DOMAIN effectsMap[s] :
         effectsMap[s][j] # Cb(f)
    /\ runs[f] = Cardinality({i \in DOMAIN hist : hist[i].op = "effect" /\ hist[i].f = f})

\* effect(fn) with fn throwing after its read of a, then a write to a
C16_Witness ==
  \E i, j \in DOMAIN hist :
    /\ i < j
    /\ hist[i].op = "effect" /\ hist[i].f \in Throwing /\ hist[i].err = "Error"
    /\ hist[j].op = "write" /\ hist[j].s = 1

\* C17: computed(x) with x no function returns false and throws nothing; it
\* creates no signal, runs and registers nothing, and leaves the tracker
\* slot, the stored values and the subscriber lists as they were
C17_ComputedNotCallable ==
  [][(CallStep /\ Last'.op = "computed" /\ ~IsCallable(Last'.f)) =>
       /\ Last'.ret = Bool(FALSE)
       /\ Last'.err = ""
       /\ signal' = signal
       /\ effectsMap' = effectsMap
       /\ changes' = changes
       /\ runs' = runs
       /\ log' = <<>>]_vars

\* computed(x) with x no function has returned false, in a state where the
\* tracker slot is set and a has a subscriber
C17_Witness ==
  /\ hist # <<>> /\ Last.op = "computed" /\ ~IsCallable(Last.f)
  /\ Last.ret = Bool(FALSE)
  /\ changes # 0
  /\ effectsMap[1] # <<>>

\* list a is the beginning of list b
IsPrefix(a, b) == Len(a) <= Len(b) /\ SubSeq(b, 1, Len(a)) = a

\* C18: every call of the program leaves each signal's subscriber list with
\* the list it had before as a prefix: entries are appended, never removed,
\* reordered or replaced
C18_AppendOnly ==
  [][\A s \in DOMAIN effectsMap :
       s \in DOMAIN effectsMap' /\ IsPrefix(effectsMap[s], effectsMap'[s])]_vars

\* a subscriber list that has grown twice
C18_Witness ==
  \E s \in DOMAIN effectsMap :
    Len(effectsMap[s]) >= 2 /\ effectsMap[s][1] # effectsMap[s][2]

\* call k is the first effect(selfA) of the program, selfA being
\* () => { a.value = a.value }
FirstSelf(k) ==
  /\ hist[k].op = "effect" /\ hist[k].f = "selfA"
  /\ \A i \in 1..(k - 1) : ~(hist[i].op = "effect" /\ hist[i].f = "selfA")

\* the runs of selfA begun during the last call
SelfRuns == SelectSeq(log, LAMBDA e : e.ev = "enter" /\ e.cb = Cb("selfA"))

\* C19: the first effect(selfA) returns after one run of selfA and subscribes
\* it to a; from then on no plain write to a returns normally: selfA runs
\* again inside its own run, and callback runs nest at every depth up to the
\* exhaustion of the call stack
C19_NoCycleBreaker ==
  \A k \in DOMAIN hist : FirstSelf(k) =>
    /\ hist[k].err = ""
    /\ k = Len(hist) => Len(SelfRuns) = 1
    /\ Cb("selfA") \in {effectsMap[1][i] : i \in DOMAIN effectsMap[1]}
    /\ \A j \in (k + 1)..Len(hist) :
         (hist[j].op = "write" /\ hist[j].s = 1) =>
           /\ hist[j].err = "RangeError"
           /\ j = Len(hist) =>
                /\ Len(SelfRuns) >= 2
                /\ \A d \in 1..MaxDepth :
                     \E i \in DOMAIN log : log[i].ev = "enter" /\ log[i].d = d

\* effect(selfA) has returned and a later write to a has failed
C19_Witness ==
  \E k \in DOMAIN hist :
    /\ FirstSelf(k)
    /\ Last.op = "write" /\ Last.s = 1 /\ Len(hist) > k
    /\ Last.err = "RangeError"
    /\ Len(SelfRuns) >= MaxDepth

\* the signals computed has returned (a and b are signals 1 and 2)
ComputedSignals ==
  {hist[i].ret.id : i \in {j \in DOMAIN hist : hist[j].op = "computed" /\ hist[j].err = ""
                                               /\ IsCallable(hist[j].f)}}

\* C20: a signal c returned by computed is read-only: after c.value = x or
\* c.set(x) made by the program, c.value returns what it returned before
C20_ComputedReadOnly ==
  (/\ hist # <<>> /\ Last.op \in {"write", "set"} /\ Last.err = ""
   /\ Last.s \in ComputedSignals) =>
    Read(Last.s) = ReadBefore(Last.s)

(***************************************************************************)
(* Properties of the codec                                                 *)
(***************************************************************************)
RECURSIVE NoFunction(_)
\* v is built from plain objects, arrays and primitives
NoFunction(v) ==
  CASE v.k = "function" -> FALSE
    [] v.k = "object" -> \A i \in DOMAIN v.props : NoFunction(v.props[i].val)
    [] v.k = "array" -> \A i \in DOMAIN v.elems : NoFunction(v.elems[i])
    [] OTHER -> TRUE

RECURSIVE DeepEqual(_, _)
\* deep equality: the same keys with deeply equal values, whatever their order
DeepEqual(x, y) ==
  CASE x.k = "object" /\ y.k = "object" ->
         /\ {x.props[i].key : i \in DOMAIN x.props} = {y.props[i].key : i \in DOMAIN y.props}
         /\ \A i \in DOMAIN x.props :
              DeepEqual(x.props[i].val, PropsGet(y.props, x.props[i].key))
    [] x.k = "array" /\ y.k = "array" ->
         /\ Len(x.elems) = Len(y.elems)
         /\ \A i \in DOMAIN x.elems : DeepEqual(ReadElem(x.elems[i]), ReadElem(y.elems[i]))
    [] OTHER -> x = y

\* the program has flattened a value and unflattened the result
RoundTrip ==
  /\ Len(hist) >= 2
  /\ hist[1].op = "flattenObject" /\ hist[2].op = "unflattenObject"

\* C21: for every value v built from plain objects, arrays and primitives,
\* empty containers and arrays in arrays included, unflattenObject of
\* flattenObject(v) returns a value deeply equal to v
C21_RoundTrip ==
  (RoundTrip /\ NoFunction(hist[1].arg)) =>
    /\ hist[2].err = ""
    /\ DeepEqual(hist[2].ret, hist[1].arg)

\* the path of element i (0-based) of the array at path
IndexPath(path, i) == path \o "[" \o ToString(i) \o "]"

RECURSIVE ArraysAt(_, _, _)
\* the arrays stored under a key in v, at any depth, each with the path of
\* its key and the property names that lead to it; v itself lies at path
ArraysAt(v, path, steps) ==
  CASE v.k = "object" ->
         UNION {LET key == v.props[i].key
                    val == v.props[i].val
                    p == IF path = "" THEN key ELSE path \o "." \o key
                IN (IF val.k = "array"
                      THEN {[path |-> p, steps |-> Append(steps, key), arr |-> val]}
                      ELSE {})
                   \cup ArraysAt(val, p, Append(steps, key)) : i \in DOMAIN v.props}
    [] v.k = "array" ->
         UNION {IF v.elems[i].k = "object"
                  THEN ArraysAt(v.elems[i], IndexPath(path, i - 1),
                                Append(steps, ToString(i - 1)))
                  ELSE {} : i \in DOMAIN v.elems}
    [] OTHER -> {}

RECURSIVE Walk(_, _)
\* v[steps[1]][steps[2]]...
Walk(v, steps) ==
  IF steps = <<>> THEN v ELSE Walk(GetProp(v, steps[1]), Tail(steps))

\* flat holds every entry of part
Holds(flat, part) ==
  \A j \in DOMAIN part : PropsGet(flat, part[j].key) = part[j].val

\* element el, at index i of the array a of the value flattened, is encoded
\* in flat under the path a.path[i]
Encoded(flat, a, i, el) ==
  IF IsObject(el)
    THEN Holds(flat, flattenObject(el, IndexPath(a.path, i), ".").props)
    ELSE PropsGet(flat, IndexPath(a.path, i)) = el

\* back holds an array where a was, with el at index i
Rebuilt(back, a, i, el) ==
  /\ Walk(back, a.steps).k = "array"
  /\ DeepEqual(Walk(back, Append(a.steps, ToString(i))), el)

\* C22: flattenObject maps element i of an array stored under a key, at any
\* depth, to the path of the key followed by [i], an object element to the
\* paths of its own flattening below that path; unflattenObject of the map
\* rebuilds an array there with each element at its index
C22_ArrayEncoding ==
  RoundTrip =>
    \A a \in ArraysAt(hist[1].arg, "", <<>>) : \A i \in DOMAIN a.arr.elems :
      /\ Encoded(hist[1].ret.props, a, i - 1, a.arr.elems[i])
      /\ hist[2].err = ""
      /\ Rebuilt(hist[2].ret, a, i - 1, a.arr.elems[i])

(***************************************************************************)
(* Properties of the tracker slot and of the subscriber lists              *)
(***************************************************************************)
\* C23: when a call of effect has returned normally the tracker slot is
\* empty, whatever the callback read and whatever the slot held before
C23_SlotEmptyAfterEffect ==
  (hist # <<>> /\ Last.op = "effect" /\ Last.err = "") => changes = 0

\* effect(noRead) has returned right after a read had filled the slot
C23_Witness ==
  /\ Len(hist) >= 2
  /\ hist[Len(hist) - 1].op = "read"
  /\ Last.op = "effect" /\ Last.f = "noRead" /\ Last.err = ""
  /\ changes = 0

\* the calls effect(fn) of the program
EffectsOf(fn) == {i \in DOMAIN hist : hist[i].op = "effect" /\ hist[i].f = fn}

\* the runs of cb begun during the last call
RunsOf(cb) == SelectSeq(log, LAMBDA e : e.ev = "enter" /\ e.cb = cb)

\* C24: when the program's registrations are k calls effect(readA), a's
\* subscriber list holds readA k times, and a plain write to a runs readA
\* exactly k times
C24_Duplicates ==
  (Registrations = EffectsOf("readA")) =>
    /\ effectsMap[1] = [i \in 1..Cardinality(EffectsOf("readA")) |-> Cb("readA")]
    /\ (hist # <<>> /\ Last.op = "write" /\ Last.s = 1) =>
         Len(RunsOf(Cb("readA"))) = Cardinality(EffectsOf("readA"))

\* effect(readA) twice, then a write to a that ran readA twice
C24_Witness ==
  /\ Registrations = EffectsOf("readA")
  /\ Cardinality(EffectsOf("readA")) = 2
  /\ Last.op = "write" /\ Last.s = 1
  /\ Len(RunsOf(Cb("readA"))) = 2

\* the subscriptions made during a call, in its log
Subscribed(l) == SelectSeq(l, LAMBDA e : e.ev = "subscribe")

\* the last call is a computed(fn) with fn a function, and it has returned
ComputedReturned ==
  hist # <<>> /\ Last.op = "computed" /\ IsCallable(Last.f) /\ Last.err = ""

\* the signal read last during the last call
LastRead == Reads(log)[Len(Reads(log))].s

\* C25: computed(fn) with fn a function runs fn exactly twice before it
\* returns, creates one signal, which reads the result of fn, and adds
\* exactly one subscription: its recompute closure, appended to the list of
\* the signal fn read last
C25_ComputedConstruction ==
  /\ [](ComputedReturned =>
          /\ Last.ret = Handle(Len(signal))
          /\ Read(Len(signal)) = CallFn(St, Last.f, 1).ret
          /\ Subscribed(log) = <<[ev |-> "subscribe",
                                  cb |-> Recompute(Last.f, Len(signal)),
                                  s |-> LastRead]>>)
  /\ [][(CallStep /\ ComputedReturned') =>
          /\ runs' = [runs EXCEPT ![Last'.f] = @ + 2]
          /\ Len(signal') = Len(signal) + 1
          /\ effectsMap' = [Append(effectsMap, <<>>) EXCEPT
                              ![LastRead'] = Append(@, Recompute(Last'.f, Len(signal')))]]_vars

\* computed(sum) has returned and its closure follows an earlier subscriber
\* in b's list
C25_Witness ==
  /\ ComputedReturned /\ Last.f = "sum"
  /\ Len(effectsMap[2]) >= 2
  /\ effectsMap[2][Len(effectsMap[2])] = Recompute("sum", Len(signal))
  /\ runs["sum"] = 2

\* the entries of a subscriber list
Entries(list) == {list[i] : i \in DOMAIN list}

\* C26: a plain write to s runs, at the top of the cascade, only entries of
\* s's own subscriber list; when that list is empty the write runs nothing,
\* whatever the other signals' lists hold and even when another signal holds
\* the same value
C26_IdentityIsolation ==
  [][(CallStep /\ Last'.op = "write") =>
       /\ \A i \in DOMAIN TopRuns(log') :
            TopRuns(log')[i].cb \in Entries(effectsMap'[Last'.s])
       /\ effectsMap[Last'.s] = <<>> =>
            /\ runs' = runs
            /\ \A i \in DOMAIN log' : log'[i].ev = "store"]_vars

\* a write to a signal without subscribers, made while the other signal held
\* the same value and had a subscriber, which did not run
C26_Witness ==
  /\ hist # <<>> /\ Last.op = "write" /\ Last.s \in {1, 2}
  /\ Last.was[1] = Last.was[2]
  /\ effectsMap[Last.s] = <<>>
  /\ effectsMap[3 - Last.s] # <<>>
  /\ \A i \in DOMAIN log : log[i].ev = "store"

(***************************************************************************)
(* Properties of the cascade of a write                                    *)
(***************************************************************************)
\* the signals a subscriber-list entry writes: the targets of its assignments
\* and, for the closure of a computed signal, that signal
Writes(cb) ==
  {Code[cb.name].body[i].s :
     i \in {j \in DOMAIN Code[cb.name].body : Code[cb.name].body[j].op = "write"}}
    \cup (IF cb.target # 0 THEN {cb.target} ELSE {})

\* the entry calls effect()
CallsEffect(cb) ==
  \E i \in DOMAIN Code[cb.name].body : Code[cb.name].body[i].op = "effect"

\* the signals written when the subscribers of the signals in S run
ReachStep(S) ==
  S \cup UNION {Writes(cb) : cb \in UNION {Entries(effectsMap[s]) : s \in S}}

RECURSIVE ReachN(_, _)
ReachN(S, n) == IF n = 0 THEN S ELSE ReachN(ReachStep(S), n - 1)

\* the signals a write to s writes, directly or transitively
Reach(s) == ReachN({s}, Len(signal))

\* a subscriber reachable from a write to s writes a signal that triggers it,
\* directly or transitively, or calls effect()
Cyclic(s) ==
  \E t \in Reach(s) : \E cb \in Entries(effectsMap[t]) :
    \/ CallsEffect(cb)
    \/ \E w \in Writes(cb) : t \in Reach(w)

\* every callback run begun in the log has returned
Completed(l) ==
  Len(SelectSeq(l, LAMBDA e : e.ev = "enter")) = Len(SelectSeq(l, LAMBDA e : e.ev = "exit"))

\* C27: a plain write to s, when no subscriber reachable from it writes a
\* signal that triggers it and none calls effect(), returns normally, and
\* every callback run it started has returned by then
C27_AcyclicTerminates ==
  (hist # <<>> /\ Last.op = "write" /\ ~Cyclic(Last.s)) =>
    /\ Last.err = ""
    /\ Completed(log)

\* a write to a has run copyAB, whose write to b has run a subscriber of b
C27_Witness ==
  /\ hist # <<>> /\ Last.op = "write" /\ Last.s = 1 /\ ~Cyclic(1)
  /\ Last.err = ""
  /\ Cb("copyAB") \in Entries(effectsMap[1])
  /\ \E i \in DOMAIN log : log[i].ev = "enter" /\ log[i].d = 2

\* the callbacks the last call ran at nesting 1, in order
TopEntered(l) ==
  [i \in DOMAIN SelectSeq(l, LAMBDA e : e.ev = "enter" /\ e.d = 1) |->
     SelectSeq(l, LAMBDA e : e.ev = "enter" /\ e.d = 1)[i].cb]

\* C28: a plain write to s that returns has run exactly the entries s's
\* subscriber list held when the write began, once each and in order; an
\* entry added to the list by one of them during the write is not run by
\* that write
C28_ListAtWriteStart ==
  [][(CallStep /\ Last'.op = "write" /\ Last'.err = "") =>
       TopEntered(log') = effectsMap[Last'.s]]_vars

\* C29: every value of a map returned by flattenObject is a primitive or a
\* function marker, for inputs built from objects, arrays, primitives and
\* functions, functions that are array elements included
C29_FlatValues ==
  \A i \in DOMAIN hist : hist[i].op = "flattenObject" =>
    \A j \in DOMAIN hist[i].ret.props :
      Primitive(hist[i].ret.props[j].val) \/ IsMarker(hist[i].ret.props[j].val)

\* C30: a subscriber list changes only inside a call of effect(), made by
\* the program directly, through computed(), or by a callback that was run;
\* a write that re-runs switchAB, which then reads b although it read only a
\* when it was registered, changes no list
C30_FixedAtRegistration ==
  [][CallStep =>
       /\ (\E s \in DOMAIN effectsMap : effectsMap'[s] # effectsMap[s]) =>
            \/ Last'.op \in {"effect", "computed"}
            \/ \E i \in DOMAIN log' : log'[i].ev = "enter" /\ CallsEffect(log'[i].cb)
       /\ (Last'.op = "write" /\ Entries(effectsMap[Last'.s]) = {Cb("switchAB")}) =>
            effectsMap' = effectsMap]_vars

\* switchAB was registered when a held 0, so that it read a alone; a write of
\* 5 to a has re-run it, it has read b last, and b has no subscriber
C30_Witness ==
  /\ Len(hist) >= 2
  /\ hist[1].op = "effect" /\ hist[1].f = "switchAB" /\ hist[1].was[1] = Num(0)
  /\ Last.op = "write" /\ Last.s = 1 /\ Last.arg = Num(5)
  /\ Reads(log) # <<>> /\ LastRead = 2
  /\ effectsMap = <<<<Cb("switchAB")>>, <<>>>>

(***************************************************************************)
(* Properties of writes, computed chains, set and failures                 *)
(***************************************************************************)
\* C31: a plain write of the value the signal already holds runs every
\* subscriber of the signal, as any other write does: a subscriber runs once
\* per write, not once per change of value
C31_NoChangeDetection ==
  [][(CallStep /\ Last'.op = "write" /\ Last'.err = ""
        /\ Last'.arg = signal[Last'.s]) =>
       /\ TopEntered(log') = effectsMap[Last'.s]
       /\ \A f \in DOMAIN runs :
            Cb(f) \in Entries(effectsMap[Last'.s]) => runs'[f] > runs[f]]_vars

\* readA is registered, and the value a holds is written to a twice: readA
\* has run three times
C31_Witness ==
  /\ Len(hist) = 3 /\ TrackedAlone(1, "readA")
  /\ hist[2].op = "write" /\ hist[2].s = 1 /\ hist[2].arg = hist[2].was[1]
  /\ hist[3].op = "write" /\ hist[3].s = 1 /\ hist[3].arg = hist[3].was[1]
  /\ runs["readA"] = 3

\* C32: with c = computed(() => a.value * 2) and the effect show registered
\* after it, show reading a.value, c.value, a.value: a plain write to a runs
\* show once, and the value show reads from c is twice the value it reads
\* from a
C32_GlitchFree ==
  \A k \in DOMAIN hist :
    (TrackedAlone(k, "show") /\ Len(hist) > k /\ Last.op = "write" /\ Last.s = 1) =>
      /\ Last.err = ""
      /\ Len(RunsOf(Cb("show"))) = 1
      /\ \A i \in DOMAIN log : (log[i].ev = "read" /\ log[i].s = 3) =>
           /\ i > 1 /\ log[i - 1].ev = "read" /\ log[i - 1].s = 1
           /\ log[i - 1].v = Last.arg
           /\ log[i].v = JsMul(log[i - 1].v, Num(2))

\* show is registered, and a write that changes a has run it with c
\* recomputed
C32_Witness ==
  /\ Len(hist) >= 2 /\ TrackedAlone(1, "show")
  /\ Last.op = "write" /\ Last.s = 1 /\ Last.arg # Last.was[1]
  /\ Len(RunsOf(Cb("show"))) = 1
  /\ \E i \in DOMAIN log : log[i].ev = "read" /\ log[i].s = 3
                            /\ log[i].v = JsMul(Last.arg, Num(2))

\* C33: with c = computed(() => a.value * 2), d = computed(() => c.value * 2)
\* and one effect readD subscribed to d: every plain write to a returns with
\* c twice a and d twice c, and has run readD exactly once
C33_ChainedComputeds ==
  (\E k, j \in DOMAIN hist :
     /\ k < j /\ j < Len(hist)
     /\ hist[k].op = "computed" /\ hist[k].f = "quad" /\ hist[k].err = ""
     /\ {i \in DOMAIN hist : hist[i].op = "effect" /\ hist[i].f = "readD"} = {j}
     /\ hist[j].err = ""
     /\ Last.op = "write" /\ Last.s = 1) =>
    /\ Last.err = ""
    /\ Read(1) = Last.arg
    /\ Read(3) = JsMul(Read(1), Num(2))
    /\ Read(4) = JsMul(JsMul(Read(1), Num(2)), Num(2))
    /\ Len(RunsOf(Cb("readD"))) = 1

\* d was derived from c, readD was registered, and a write that changes a
\* has run readD once
C33_Witness ==
  /\ Len(hist) = 3
  /\ hist[1].op = "computed" /\ hist[1].f = "quad" /\ hist[1].err = ""
  /\ hist[2].op = "effect" /\ hist[2].f = "readD" /\ hist[2].err = ""
  /\ hist[3].op = "write" /\ hist[3].s = 1 /\ hist[3].arg # hist[3].was[1]
  /\ Len(signal) = 4 /\ signal[4] = JsMul(JsMul(hist[3].arg, Num(2)), Num(2))
  /\ Len(RunsOf(Cb("readD"))) = 1

\* C34: a call s.set(x) leaves the tracker slot and every subscriber list as
\* they were, and a callback whose body is only s.set(7), once passed to
\* effect, is in no subscriber list
C34_SetUntracked ==
  /\ [](\A k \in DOMAIN hist :
          (hist[k].op = "effect" /\ hist[k].f = "setOnly" /\ hist[k].err = "") =>
            \A s \in DOMAIN effectsMap : Cb("setOnly") \notin Entries(effectsMap[s]))
  /\ [][(CallStep /\ Last'.op = "set") =>
          (changes' = changes /\ effectsMap' = effectsMap)]_vars

\* the position of the first guardA in a subscriber list
FirstGuard(list) ==
  CHOOSE i \in DOMAIN list :
    list[i] = Cb("guardA") /\ \A j \in 1..(i - 1) : list[j] # Cb("guardA")

\* C35: a plain write to a of a truthy value, when guardA (which throws when
\* the a it reads is truthy) is in a's subscriber list: the write throws
\* guardA's error to its caller, a holds the written value, the subscribers
\* run are those up to and including the first guardA, none after it, and
\* every subscriber list is as it was before the write
C35_SubscriberThrows ==
  [][(/\ CallStep /\ Last'.op = "write" /\ Last'.s = 1 /\ Truthy(Last'.arg)
      /\ Cb("guardA") \in Entries(effectsMap[1])) =>
       /\ Last'.err = "Error"
       /\ signal'[1] = Last'.arg
       /\ TopEntered(log') = SubSeq(effectsMap[1], 1, FirstGuard(effectsMap[1]))
       /\ \A f \in DOMAIN runs :
            Cb(f) \notin Entries(SubSeq(effectsMap[1], 1, FirstGuard(effectsMap[1])))
              => runs'[f] = runs[f]
       /\ effectsMap' = effectsMap]_vars

\* guardA then readA are subscribed to a, and a write of 5 to a has thrown
\* with 5 stored and readA not run
C35_Witness ==
  /\ Len(hist) = 3
  /\ hist[1].op = "effect" /\ hist[1].f = "guardA" /\ hist[1].err = ""
  /\ hist[2].op = "effect" /\ hist[2].f = "readA" /\ hist[2].err = ""
  /\ hist[3].op = "write" /\ hist[3].s = 1 /\ hist[3].arg = Num(5)
  /\ hist[3].err = "Error"
  /\ effectsMap[1] = <<Cb("guardA"), Cb("readA")>>
  /\ signal[1] = Num(5) /\ runs["readA"] = 1 /\ runs["guardA"] = 2

\* C36: on a signal created with { f: () => 42 }, after any sequence of calls
\* without a plain write that ends in a set which returns (a merge of an
\* object that has no f, or an updater that assigns to another property), the
\* value read has a function at f
C36_FunctionsSurvive ==
  (/\ hist # <<>> /\ hist[1].was[1] = Obj(<<Prop("f", Func("() => 42"))>>)
   /\ \A i \in DOMAIN hist : hist[i].op # "write"
   /\ Last.op = "set" /\ Last.err = "") =>
    GetProp(Read(1), "f").k = "function"

\* C37: an assignment to a property of the object the signal was created
\* from, or to a property (at depth one or two) of a value a read returned,
\* leaves the value a read of the signal returns as it was
C37_ReadIsolation ==
  (hist # <<>> /\ Last.op \in {"assignInitial", "assignRead"}) =>
    Read(Last.s) = ReadBefore(Last.s)

====
